---- MODULE Spec2Model ----
(***************************************************************************)
(* A model of the LangChain RAG backend (app/main.py and                   *)
(* app/services/rag_service.py).                                           *)
(*                                                                         *)
(* POST /query is modelled as the sequence of steps of query_rag_endpoint, *)
(* one action per function call of the handler.  Every external call       *)
(* (embedding, Supabase rpc / insert, LLM) may fail; a failure is an       *)
(* exception that nothing in the code catches.  The handler is `async def` *)
(* and contains no `await`, so one request runs to its end before the next *)
(* one starts.  The handler's local variables exist while it runs: they    *)
(* are dropped when it returns or raises.                                  *)
(*                                                                         *)
(* Two history variables record what the request did to the outside:       *)
(* `last_calls` holds the external calls of the step just executed, with   *)
(* their arguments and results, and `trace` lists every external call of   *)
(* the request in order (which port, whether it succeeded, and for a call  *)
(* to the History Store the conversation id it carried).                   *)
(*                                                                         *)
(* GET /eval is modelled under its own specification SpecEval, one action  *)
(* per iteration of the loop over eval_queries.                            *)
(***************************************************************************)
EXTENDS Integers, Sequences, FiniteSets, TLC

VARIABLES
    chat_history,      \* the chat_history table, in insertion order
    pc,                \* position of the /query handler
    request,           \* QueryRequest: question, conversation_id (optional)
    conversation_id,   \* main.py:33
    session_id_str,    \* main.py:34
    recalled_history,  \* recalled_history.messages, main.py:37
    rephrased,         \* output of history_aware_rephraser, inside rag_chain
    context,           \* the context block, inside rag_chain
    answer,            \* main.py:40
    response,          \* the HTTP response of the request
    last_calls,        \* external calls of the step just executed
    trace,             \* summary of all external calls of the request
    history_at_start,  \* chat_history when the current request was received
    eval_pc,           \* position of the /eval handler
    eval_i,            \* index of the current eval query
    eval_count,        \* len(eval_results)
    eval_num_sum,      \* sum of the numerators of eval_results' precisions
    eval_last,         \* the entry last appended to eval_results
    eval_report        \* the returned evaluation_summary

locals == <<conversation_id, session_id_str, recalled_history, rephrased,
            context, answer>>
query_vars == <<chat_history, pc, request, locals, response, last_calls, trace,
                history_at_start>>
eval_vars == <<eval_pc, eval_i, eval_count, eval_num_sum, eval_last, eval_report>>
vars == <<query_vars, eval_vars>>

---------------------------------------------------------------------------
(* Bounds of the model *)

\* longest list of chunks the Document Store returns in the model
MaxDocs == 2
\* rows the chat_history table may hold before no further request is taken
MaxHistory == 4

---------------------------------------------------------------------------
(* Values *)

\* Optional[UUID] = None
NoneUUID == [none |-> TRUE]

\* uuid.UUID, by its .fields; the other fields (time_low, time_mid,
\* clock_seq_low) are 0 in every UUID of the model
MakeUUID(time_hi_version, clock_seq_hi_variant, node) ==
    [time_low |-> 0, time_mid |-> 0, time_hi_version |-> time_hi_version,
     clock_seq_hi_variant |-> clock_seq_hi_variant, clock_seq_low |-> 0,
     node |-> node]

\* the nil UUID (a client may supply any UUID) and the version-4 UUID
\* 00000000-0000-4000-8000-000000000001
UUIDs == {MakeUUID(0, 0, 0), MakeUUID(16384, 128, 1)}

\* uuid4() sets the version digit to 4 and the variant bits to 10, so it
\* never returns the nil UUID
V4UUIDs == {u \in UUIDs : /\ u.time_hi_version \div 4096 = 4
                          /\ u.clock_seq_hi_variant \div 64 = 2}

HexDigits == <<"0", "1", "2", "3", "4", "5", "6", "7", "8", "9",
               "a", "b", "c", "d", "e", "f">>

\* '%0<width>x' % n
RECURSIVE Hex(_, _)
Hex(n, width) ==
    IF width = 0 THEN ""
    ELSE Hex(n \div 16, width - 1) \o HexDigits[(n % 16) + 1]

\* str(uuid): the canonical 8-4-4-4-12 hexadecimal form of its 128 bits
UUIDStr(u) ==
    Hex(u.time_low, 8) \o "-" \o Hex(u.time_mid, 4) \o "-"
        \o Hex(u.time_hi_version, 4) \o "-"
        \o Hex(u.clock_seq_hi_variant, 2) \o Hex(u.clock_seq_low, 2) \o "-"
        \o Hex(u.node, 12)

Questions == {"What is Supabase?", "And auth?"}

\* texts the LLM may return (StrOutputParser gives the message's text)
LlmReplies == {"What is Supabase?", "It is a backend."}

\* embeddings_model.embed_query: deterministic, a fixed-length vector,
\* not injective
EmbedQuery(text) == <<Len(text) % 5, Len(text) % 2>>

\* JSON values of a returned row that the code reads without knowing their
\* type: null is None, a string is a str
None == [none |-> TRUE]
Str(s) == [str |-> s]
IsStr(v) == "str" \in DOMAIN v

\* rows of the documents table as match_documents returns them.  The handler
\* reads doc["content"] and doc["metadata"]["source"]: a row may lack
\* "content", its metadata may lack "source", and a row may have no
\* "metadata", a null metadata or a null source
DocChunks ==
    { [content |-> "Supabase is open source.",
       metadata |-> [page |-> 0,
                     source |-> Str("documents/Authentication_Methods.pdf")]],
      [content |-> "Rows are inserted with insert().",
       metadata |-> [page |-> 1]],
      [metadata |-> [page |-> 2,
                     source |-> Str("documents/Authentication_Methods.pdf")]],
      [content |-> "Rows are inserted with insert()."],
      [content |-> "Supabase is open source.", metadata |-> None],
      [content |-> "Supabase is open source.",
       metadata |-> [page |-> 3, source |-> None]] }

SeqsUpTo(S, n) == UNION {[1..k -> S] : k \in 0..n}

\* the match_documents rpc: any ordered list of at most match_count chunks
MatchDocuments(query_embedding, match_count) ==
    {d \in SeqsUpTo(DocChunks, MaxDocs) : Len(d) <= match_count}

\* match_count of get_retrieved_documents
DocMatchCount == 5

\* match_count of get_relevant_history
HistoryMatchCount == 4

Range(s) == {s[i] : i \in DOMAIN s}

\* the match_chat_history rpc: at most match_count rows of the conversation,
\* ranked by the store (any order), each with content and message_type
MatchChatHistory(table, query_embedding, p_conversation_id, match_count) ==
    LET own == {i \in DOMAIN table : table[i].conversation_id = p_conversation_id}
        picks == {p \in SeqsUpTo(own, match_count) :
                     \A i, j \in DOMAIN p : i # j => p[i] # p[j]}
    IN  {[i \in DOMAIN p |-> [content |-> table[p[i]].content,
                               message_type |-> table[p[i]].message_type]] :
            p \in picks}

---------------------------------------------------------------------------
(* rag_service.py *)

contextualize_q_system_prompt ==
    "Given a chat history and the latest user question "
    \o "which might reference context in the chat history, "
    \o "formulate a standalone question which can be understood "
    \o "without the chat history. Do NOT answer the question, "
    \o "just reformulate it if needed and otherwise return it as is."

qa_system_prompt(ctx) ==
    "You are an assistant for question-answering tasks. "
    \o "Use the following pieces of retrieved context to answer "
    \o "the question. If you don't know the answer, just say "
    \o "that you don't know. Use three sentences maximum and keep "
    \o "the answer concise."
    \o "\n\n"
    \o ctx

SystemMessage(text) == [type |-> "system", content |-> text]
HumanMessage(text) == [type |-> "human", content |-> text]
AIMessage(text) == [type |-> "ai", content |-> text]

contextualize_q_prompt(chat_hist, input) ==
    <<SystemMessage(contextualize_q_system_prompt)>>
        \o chat_hist \o <<HumanMessage(input)>>

qa_prompt_misplaced(ctx, chat_hist, input) ==
    <<SystemMessage(qa_system_prompt(ctx)), HumanMessage(input)>> \o chat_hist

qa_prompt(ctx, chat_hist, input) ==
    <<SystemMessage(qa_system_prompt(ctx))>>
        \o chat_hist \o <<HumanMessage(input)>>

\* the loop of get_relevant_history over match_response.data
RECURSIVE RecalledMessagesHumanOnly(_)
RecalledMessagesHumanOnly(data) ==
    IF data = <<>> THEN <<>>
    ELSE LET doc == Head(data)
             rest == RecalledMessagesHumanOnly(Tail(data))
         IN  IF doc.message_type = "human"
             THEN <<HumanMessage(doc.content)>> \o rest
             ELSE rest

RECURSIVE RecalledMessages(_)
RecalledMessages(data) ==
    IF data = <<>> THEN <<>>
    ELSE LET doc == Head(data)
             rest == RecalledMessages(Tail(data))
         IN  IF doc.message_type = "human"
             THEN <<HumanMessage(doc.content)>> \o rest
             ELSE IF doc.message_type = "ai"
             THEN <<AIMessage(doc.content)>> \o rest
             ELSE rest

RECURSIVE JoinContentsNewline(_)
JoinContentsNewline(parts) ==
    IF parts = <<>> THEN ""
    ELSE IF Len(parts) = 1 THEN parts[1]
    ELSE parts[1] \o "\n" \o JoinContentsNewline(Tail(parts))

\* "\n\n".join([doc["content"] for doc in response.data if "content" in doc])
RECURSIVE JoinContents(_)
JoinContents(parts) ==
    IF parts = <<>> THEN ""
    ELSE IF Len(parts) = 1 THEN parts[1]
    ELSE parts[1] \o "\n\n" \o JoinContents(Tail(parts))

HasContent(doc) == "content" \in DOMAIN doc

RECURSIVE ContentsOf(_)
ContentsOf(data) ==
    IF data = <<>> THEN <<>>
    ELSE IF HasContent(Head(data))
         THEN <<Head(data).content>> \o ContentsOf(Tail(data))
         ELSE ContentsOf(Tail(data))

ContextBlock(data) == JoinContents(ContentsOf(data))

\* the row add_message_to_history inserts
HistoryRowSwapped(session_id, message_type, content) ==
    [conversation_id |-> session_id,
     message_type |-> IF message_type = "human" THEN "ai" ELSE "human",
     content |-> content,
     embedding |-> EmbedQuery(content)]

HistoryRow(session_id, message_type, content) ==
    [conversation_id |-> session_id,
     message_type |-> message_type,
     content |-> content,
     embedding |-> EmbedQuery(content)]

(* the external calls, with their arguments and results *)
EmbedCall(text, ok) == [op |-> "embed_query", text |-> text, ok |-> ok]
HistoryMatchCall(emb, sid, ok, rows) ==
    [op |-> "match_chat_history", query_embedding |-> emb,
     p_conversation_id |-> sid, match_count |-> HistoryMatchCount,
     ok |-> ok, result |-> rows]
DocMatchCall(emb, ok, data) ==
    [op |-> "match_documents", query_embedding |-> emb,
     match_count |-> DocMatchCount, ok |-> ok, result |-> data]
LlmCall(messages, ok, text) ==
    [op |-> "llm", messages |-> messages, ok |-> ok, result |-> text]
InsertCall(row, ok) == [op |-> "insert_chat_history", row |-> row, ok |-> ok]

Summary(call) ==
    IF call.op = "match_chat_history"
    THEN [op |-> call.op, ok |-> call.ok, conversation_id |-> call.p_conversation_id]
    ELSE IF call.op = "insert_chat_history"
    THEN [op |-> call.op, ok |-> call.ok, conversation_id |-> call.row.conversation_id]
    ELSE [op |-> call.op, ok |-> call.ok]

---------------------------------------------------------------------------
(* main.py: POST /query *)

NoResponse == [status |-> 0]

\* what FastAPI answers when the handler raises
ServerError == [status |-> 500]

\* sources: List[str]; a value that is not a str fails the validation of the
\* response model
ValidSources(srcs) == \A i \in DOMAIN srcs : IsStr(srcs[i])

QueryResponse(ans, srcs, cid) ==
    [status |-> 200, answer |-> ans,
     sources |-> [i \in DOMAIN srcs |-> srcs[i].str],
     conversation_id |-> cid]

\* request.conversation_id or uuid4(): a UUID object is always truthy
ResolveAlwaysFresh(supplied, fresh) == fresh

ResolveConversationId(supplied, fresh) ==
    IF supplied # NoneUUID THEN supplied ELSE fresh

\* the order of the handler's steps (rag_chain.invoke is rephrase,
\* retrieve_context, generate)
StepAfterSourcesFirst(step) ==
    CASE step = "recall" -> "rephrase"
      [] step = "rephrase" -> "retrieve_context"
      [] step = "retrieve_context" -> "generate"
      [] step = "generate" -> "retrieve_sources"
      [] step = "retrieve_sources" -> "add_human"
      [] step = "add_human" -> "add_ai"
      [] step = "add_ai" -> "done"

StepAfterPersistFirst(step) ==
    CASE step = "recall" -> "add_human"
      [] step = "add_human" -> "rephrase"
      [] step = "rephrase" -> "retrieve_context"
      [] step = "retrieve_context" -> "generate"
      [] step = "generate" -> "add_ai"
      [] step = "add_ai" -> "retrieve_sources"
      [] step = "retrieve_sources" -> "done"

StepAfter(step) ==
    CASE step = "recall" -> "rephrase"
      [] step = "rephrase" -> "retrieve_context"
      [] step = "retrieve_context" -> "generate"
      [] step = "generate" -> "add_human"
      [] step = "add_human" -> "add_ai"
      [] step = "add_ai" -> "retrieve_sources"
      [] step = "retrieve_sources" -> "done"

\* nothing in the handler or the service catches an exception: a failed call
\* ends the request
PropagateSwallowed(ok, next) == next

Propagate(ok, next) == IF ok THEN next ELSE "failed"

\* doc["metadata"] raises KeyError on a row without the key, and .get raises
\* AttributeError on a null metadata
MetadataRaises(doc) ==
    IF "metadata" \in DOMAIN doc THEN doc.metadata = None ELSE TRUE

\* doc["metadata"].get("source", "Unknown"): the default stands in for a
\* missing key only, a null source is returned as it is
SourceOf(doc) ==
    IF "source" \in DOMAIN doc.metadata THEN doc.metadata.source
    ELSE Str("Unknown")

\* the orders list(set(...)) may give
ListsOfSet(S) ==
    {s \in [1..Cardinality(S) -> S] : \A i, j \in DOMAIN s : i # j => s[i] # s[j]}

\* list(set([... for doc in match_response.data])) if match_response.data else []
DeriveSourcesNoSet(data) == {[i \in DOMAIN data |-> SourceOf(data[i])]}

DeriveSources(data) ==
    IF data = <<>> THEN {<<>>}
    ELSE ListsOfSet({SourceOf(data[i]) : i \in DOMAIN data})

\* the handler's frame is gone once it has returned or raised
DropLocals ==
    /\ conversation_id' = NoneUUID
    /\ session_id_str' = ""
    /\ recalled_history' = <<>>
    /\ rephrased' = ""
    /\ context' = ""
    /\ answer' = ""

\* how a step ends: its calls are recorded and the request goes on, or fails
\* with the exception of the failed call
Finish(step, ok, made) ==
    /\ last_calls' = made
    /\ trace' = trace \o [i \in DOMAIN made |-> Summary(made[i])]
    /\ pc' = Propagate(ok, StepAfter(step))
    /\ UNCHANGED <<request, history_at_start>>
    /\ UNCHANGED eval_vars

\* a step that does not end the handler normally
Continue(step, ok, made) ==
    /\ Finish(step, ok, made)
    /\ IF pc' = "failed"
       THEN response' = ServerError /\ DropLocals
       ELSE UNCHANGED response

Receive(q, supplied, fresh) ==
    /\ pc \in {"idle", "done", "failed"}
    /\ Len(chat_history) + 2 <= MaxHistory
    /\ request' = [question |-> q, conversation_id |-> supplied]
    /\ conversation_id' = ResolveConversationId(supplied, fresh)
    /\ session_id_str' = UUIDStr(conversation_id')
    /\ recalled_history' = <<>>
    /\ rephrased' = ""
    /\ context' = ""
    /\ answer' = ""
    /\ response' = NoResponse
    /\ last_calls' = <<>>
    /\ trace' = <<>>
    /\ history_at_start' = chat_history
    /\ pc' = "recall"
    /\ UNCHANGED chat_history
    /\ UNCHANGED eval_vars

\* main.py:37, get_relevant_history(session_id_str, request.question)
GetRelevantHistory ==
    /\ pc = "recall"
    /\ LET emb == EmbedQuery(request.question)
       IN  \/ /\ Continue("recall", FALSE, <<EmbedCall(request.question, FALSE)>>)
              /\ pc' = "failed" \/ UNCHANGED locals
           \/ /\ Continue("recall", FALSE,
                          <<EmbedCall(request.question, TRUE),
                            HistoryMatchCall(emb, session_id_str, FALSE, <<>>)>>)
              /\ pc' = "failed" \/ UNCHANGED locals
           \/ \E rows \in MatchChatHistory(chat_history, emb, session_id_str,
                                           HistoryMatchCount) :
                /\ Continue("recall", TRUE,
                            <<EmbedCall(request.question, TRUE),
                              HistoryMatchCall(emb, session_id_str, TRUE, rows)>>)
                /\ recalled_history' = RecalledMessages(rows)
                /\ UNCHANGED <<conversation_id, session_id_str, rephrased, context,
                               answer>>
    /\ UNCHANGED chat_history

\* rag_chain: history_aware_rephraser
Rephrase ==
    /\ pc = "rephrase"
    /\ LET prompt == contextualize_q_prompt(recalled_history, request.question)
       IN  \/ /\ Continue("rephrase", FALSE, <<LlmCall(prompt, FALSE, "")>>)
              /\ pc' = "failed" \/ UNCHANGED locals
           \/ \E text \in LlmReplies :
                /\ Continue("rephrase", TRUE, <<LlmCall(prompt, TRUE, text)>>)
                /\ rephrased' = text
                /\ UNCHANGED <<conversation_id, session_id_str, recalled_history,
                               context, answer>>
    /\ UNCHANGED chat_history

\* rag_chain: get_retrieved_documents(query) and the join of the contents
RetrieveContext ==
    /\ pc = "retrieve_context"
    /\ LET emb == EmbedQuery(rephrased)
       IN  \/ /\ Continue("retrieve_context", FALSE, <<EmbedCall(rephrased, FALSE)>>)
              /\ pc' = "failed" \/ UNCHANGED locals
           \/ /\ Continue("retrieve_context", FALSE,
                          <<EmbedCall(rephrased, TRUE), DocMatchCall(emb, FALSE, <<>>)>>)
              /\ pc' = "failed" \/ UNCHANGED locals
           \/ \E data \in MatchDocuments(emb, DocMatchCount) :
                /\ Continue("retrieve_context", TRUE,
                            <<EmbedCall(rephrased, TRUE), DocMatchCall(emb, TRUE, data)>>)
                /\ context' = ContextBlock(data)
                /\ UNCHANGED <<conversation_id, session_id_str, recalled_history,
                               rephrased, answer>>
    /\ UNCHANGED chat_history

\* rag_chain: qa_prompt | llm_client | StrOutputParser(); the chain returns the
\* answer alone, its intermediate values do not outlive it
GenerateAnswer ==
    /\ pc = "generate"
    /\ LET prompt == qa_prompt(context, recalled_history, request.question)
       IN  \/ /\ Continue("generate", FALSE, <<LlmCall(prompt, FALSE, "")>>)
              /\ pc' = "failed" \/ UNCHANGED locals
           \/ \E text \in LlmReplies :
                /\ Continue("generate", TRUE, <<LlmCall(prompt, TRUE, text)>>)
                /\ answer' = text
                /\ rephrased' = ""
                /\ context' = ""
                /\ UNCHANGED <<conversation_id, session_id_str, recalled_history>>
    /\ UNCHANGED chat_history

\* add_message_to_history(session_id, message_type, content)
AddMessageToHistory(step, message_type, content) ==
    /\ pc = step
    /\ LET row == HistoryRow(session_id_str, message_type, content)
       IN  \/ /\ Continue(step, FALSE, <<EmbedCall(content, FALSE)>>)
              /\ UNCHANGED chat_history
           \/ /\ Continue(step, FALSE, <<EmbedCall(content, TRUE), InsertCall(row, FALSE)>>)
              /\ UNCHANGED chat_history
           \/ /\ Continue(step, TRUE, <<EmbedCall(content, TRUE), InsertCall(row, TRUE)>>)
              /\ chat_history' = Append(chat_history, row)
    /\ pc' = "failed" \/ UNCHANGED locals

\* main.py:46
AddHumanMessage == AddMessageToHistory("add_human", "human", request.question)

\* main.py:47
AddAiMessage == AddMessageToHistory("add_ai", "ai", answer)

\* main.py:50-57
RetrieveSources ==
    /\ pc = "retrieve_sources"
    /\ LET emb == EmbedQuery(request.question)
       IN  \/ /\ Continue("retrieve_sources", FALSE,
                          <<EmbedCall(request.question, FALSE)>>)
              /\ pc' = "failed" \/ UNCHANGED locals
           \/ /\ Continue("retrieve_sources", FALSE,
                          <<EmbedCall(request.question, TRUE),
                            DocMatchCall(emb, FALSE, <<>>)>>)
              /\ pc' = "failed" \/ UNCHANGED locals
           \/ \E data \in MatchDocuments(emb, DocMatchCount) :
                LET made == <<EmbedCall(request.question, TRUE),
                              DocMatchCall(emb, TRUE, data)>>
                IN  IF \E i \in DOMAIN data : MetadataRaises(data[i])
                    THEN /\ Continue("retrieve_sources", FALSE, made)
                         /\ pc' = "failed" \/ UNCHANGED locals
                    ELSE \E srcs \in DeriveSources(data) :
                           IF ValidSources(srcs)
                           THEN /\ Finish("retrieve_sources", TRUE, made)
                                /\ response' =
                                      QueryResponse(answer, srcs, conversation_id)
                                /\ DropLocals
                           ELSE /\ Continue("retrieve_sources", FALSE, made)
                                /\ pc' = "failed" \/ UNCHANGED locals
    /\ UNCHANGED chat_history

---------------------------------------------------------------------------
(* main.py: GET /eval *)

\* k = 3, main.py:66
K == 3

eval_queries ==
    << [question |-> "How do I initialize the Supabase client in Python?",
        expected_sources |-> <<"Client_Initialization_and_Setup.pdf",
                               "Supabase_Python_Introduction.pdf">>],
       [question |-> "What are the authentication methods supported by Supabase?",
        expected_sources |-> <<"Authentication_Methods.pdf">>],
       [question |-> "How can I perform CRUD operations on the database?",
        expected_sources |-> <<"Database_Operations.pdf">>],
       [question |-> "What are Supabase Edge Functions?",
        expected_sources |-> <<"Edge_Functions_and_API_Integration.pdf">>],
       [question |-> "How does Supabase handle real-time subscriptions?",
        expected_sources |-> <<"Real-time_Subscriptions.pdf">>],
       [question |-> "What are security best practices for Supabase?",
        expected_sources |-> <<"Error_Handling_and_Security.pdf">>],
       [question |-> "How do I upload files to Supabase storage?",
        expected_sources |-> <<"Storage_Management.pdf">>],
       [question |-> "What is the purpose of the .env file?",
        expected_sources |-> <<"Client_Initialization_and_Setup.pdf">>],
       [question |-> "Can Supabase handle database relationships?",
        expected_sources |-> <<"Database_Operations.pdf">>],
       [question |-> "What is the embedding dimension for all-MiniLM-L6-v2?",
        expected_sources |-> <<>>] >>

\* os.path.basename: what follows the last "/"
Basename(path) ==
    LET slashes == {i \in 1..Len(path) : SubSeq(path, i, i) = "/"}
        last == IF slashes = {} THEN 0
                ELSE CHOOSE i \in slashes : \A j \in slashes : j <= i
    IN  IF last = Len(path) THEN "" ELSE SubSeq(path, last + 1, Len(path))

\* doc["metadata"].get("source", "")
EvalSourceOf(doc) ==
    IF "source" \in DOMAIN doc.metadata THEN doc.metadata.source ELSE Str("")

\* the comprehension raises on a row whose metadata cannot be read, and
\* os.path.basename raises TypeError on a null source
RetrievedSourcesRaises(data) ==
    \E i \in DOMAIN data :
        IF MetadataRaises(data[i]) THEN TRUE
        ELSE ~IsStr(EvalSourceOf(data[i]))

\* [os.path.basename(doc["metadata"].get("source", "")) for doc in data]
RetrievedSources(data) ==
    [i \in DOMAIN data |-> Basename(EvalSourceOf(data[i]).str)]

\* sum(1 for source in retrieved_sources if source in expected_sources)
NumRelevantRetrieved(retrieved_sources, expected_sources) ==
    Cardinality({i \in DOMAIN retrieved_sources :
                    retrieved_sources[i] \in Range(expected_sources)})

\* num_relevant_retrieved / k if k > 0 else 0, as the exact quotient
PrecisionAtK(num_relevant_retrieved, k) ==
    IF k > 0 THEN [num |-> num_relevant_retrieved, den |-> k]
    ELSE [num |-> 0, den |-> 1]

NoEntry == [query_id |-> 0]

NoReport == [total_queries |-> 0]

EvalStart ==
    /\ eval_pc \in {"idle", "done", "failed"}
    /\ eval_pc' = "loop"
    /\ eval_i' = 0
    /\ eval_count' = 0
    /\ eval_num_sum' = 0
    /\ eval_last' = NoEntry
    /\ eval_report' = NoReport
    /\ UNCHANGED query_vars

\* one iteration of the loop, main.py:80-100
EvalQuery ==
    /\ eval_pc = "loop"
    /\ eval_i < Len(eval_queries)
    /\ LET query_data == eval_queries[eval_i + 1]
           question == query_data.question
           expected_sources == query_data.expected_sources
       IN  \/ /\ eval_pc' = "failed"
              /\ UNCHANGED <<eval_i, eval_count, eval_num_sum, eval_last>>
           \/ \E data \in MatchDocuments(EmbedQuery(question), DocMatchCount) :
                /\ RetrievedSourcesRaises(data)
                /\ eval_pc' = "failed"
                /\ UNCHANGED <<eval_i, eval_count, eval_num_sum, eval_last>>
           \/ \E data \in MatchDocuments(EmbedQuery(question), DocMatchCount) :
                /\ ~RetrievedSourcesRaises(data)
                /\ LET retrieved_sources ==
                           IF data # <<>> THEN RetrievedSources(data) ELSE <<>>
                       num_relevant_retrieved ==
                           NumRelevantRetrieved(retrieved_sources, expected_sources)
                   IN  /\ eval_last' =
                             [query_id |-> eval_i + 1,
                              question |-> question,
                              expected_sources |-> expected_sources,
                              retrieved_sources |-> retrieved_sources,
                              precision_at_k |->
                                  PrecisionAtK(num_relevant_retrieved, K)]
                       /\ eval_count' = eval_count + 1
                       /\ eval_num_sum' = eval_num_sum + num_relevant_retrieved
                       /\ eval_i' = eval_i + 1
                       /\ eval_pc' = "loop"
    /\ UNCHANGED eval_report
    /\ UNCHANGED query_vars

\* main.py:102-107; overall precision = (sum of the numerators / k) / count
EvalReturn ==
    /\ eval_pc = "loop"
    /\ eval_i = Len(eval_queries)
    /\ eval_report' =
          [total_queries |-> Len(eval_queries),
           k_value |-> K,
           overall_average_precision_at_k |->
               IF eval_count > 0
               THEN [num |-> eval_num_sum, den |-> K * eval_count]
               ELSE [num |-> 0, den |-> 1]]
    /\ eval_pc' = "done"
    /\ UNCHANGED <<eval_i, eval_count, eval_num_sum, eval_last>>
    /\ UNCHANGED query_vars

---------------------------------------------------------------------------
(* Specifications *)

Init ==
    /\ chat_history = <<>>
    /\ pc = "idle"
    /\ request = [question |-> "", conversation_id |-> NoneUUID]
    /\ conversation_id = NoneUUID
    /\ session_id_str = ""
    /\ recalled_history = <<>>
    /\ rephrased = ""
    /\ context = ""
    /\ answer = ""
    /\ response = NoResponse
    /\ last_calls = <<>>
    /\ trace = <<>>
    /\ history_at_start = <<>>
    /\ eval_pc = "idle"
    /\ eval_i = 0
    /\ eval_count = 0
    /\ eval_num_sum = 0
    /\ eval_last = NoEntry
    /\ eval_report = NoReport

Next ==
    \/ \E q \in Questions, supplied \in UUIDs \cup {NoneUUID}, fresh \in V4UUIDs :
          Receive(q, supplied, fresh)
    \/ GetRelevantHistory
    \/ Rephrase
    \/ RetrieveContext
    \/ GenerateAnswer
    \/ AddHumanMessage
    \/ AddAiMessage
    \/ RetrieveSources

Spec == Init /\ [][Next]_vars

NextEval ==
    \/ EvalStart
    \/ EvalQuery
    \/ EvalReturn

SpecEval == Init /\ [][NextEval]_vars

---------------------------------------------------------------------------
(* Properties of POST /query and GET /eval *)

Succeeded == response.status = 200

NilUUID == MakeUUID(0, 0, 0)

\* the ports called so far by the request, embedding calls left out
IsPortCall(c) == c.op # "embed_query"
PortOps == LET ported == SelectSeq(trace, IsPortCall)
           IN  [i \in DOMAIN ported |-> ported[i].op]

IsPrefix(s, t) == Len(s) <= Len(t) /\ SubSeq(t, 1, Len(s)) = s

\* the last step made an embedding call for `text` and then call `op`, both
\* successful
EmbeddedThen(text, op) ==
    /\ Len(last_calls) = 2
    /\ last_calls[1] = [op |-> "embed_query", text |-> text, ok |-> TRUE]
    /\ last_calls[2].op = op
    /\ last_calls[2].ok

\* the last step made one successful LLM call
CalledLlm ==
    /\ Len(last_calls) = 1
    /\ last_calls[1].op = "llm"
    /\ last_calls[1].ok

\* C1: after a successful POST /query for conversation c with question q and
\* answer a, the chat history is what it was before the request followed by
\* exactly two new entries of c: a human entry with content q, then an ai
\* entry with content a.
C1_TwoNewEntries ==
    Succeeded =>
        LET n == Len(history_at_start)
            c == UUIDStr(response.conversation_id)
        IN  /\ Len(chat_history) = n + 2
            /\ SubSeq(chat_history, 1, n) = history_at_start
            /\ chat_history[n + 1].conversation_id = c
            /\ chat_history[n + 1].message_type = "human"
            /\ chat_history[n + 1].content = request.question
            /\ chat_history[n + 2].conversation_id = c
            /\ chat_history[n + 2].message_type = "ai"
            /\ chat_history[n + 2].content = response.answer

C1_Witness ==
    /\ Succeeded
    /\ history_at_start # <<>>
    /\ request.question # response.answer

\* C2: a successful response carries the supplied conversation id if one was
\* given and otherwise a generated non-nil one, and the recall and both
\* appends of the request carried that id; while the request runs, every
\* History Store call carries the id resolved at its start.
C2_ConversationId ==
    /\ Succeeded =>
          /\ IF request.conversation_id # NoneUUID
             THEN response.conversation_id = request.conversation_id
             ELSE response.conversation_id \in UUIDs
                    /\ response.conversation_id # NilUUID
          /\ \A i \in DOMAIN trace :
                "conversation_id" \in DOMAIN trace[i] =>
                    trace[i].conversation_id = UUIDStr(response.conversation_id)
          /\ Cardinality({i \in DOMAIN trace :
                             "conversation_id" \in DOMAIN trace[i]}) = 3
    /\ pc \notin {"idle", "done", "failed"} =>
          /\ IF request.conversation_id # NoneUUID
             THEN conversation_id = request.conversation_id
             ELSE conversation_id \in UUIDs /\ conversation_id # NilUUID
          /\ \A i \in DOMAIN trace :
                "conversation_id" \in DOMAIN trace[i] =>
                    trace[i].conversation_id = UUIDStr(conversation_id)

C2_Witness ==
    /\ Succeeded
    /\ request.conversation_id = NilUUID
    /\ history_at_start # <<>>

\* C3: when the recalled history is empty, the text embedded for the context
\* document retrieval is the question unchanged, whatever the LLM returned
\* for the reformulation.
C3_PassThrough ==
    (pc = "generate" /\ recalled_history = <<>>) =>
        /\ Len(last_calls) = 2
        /\ last_calls[1].op = "embed_query"
        /\ last_calls[1].text = request.question

\* C4: a failed external call is the last call of its request (nothing is
\* retried, nothing follows it), the request ends in failure with no answer
\* in the response, and a response with an answer means every call succeeded.
C4_FailurePropagates ==
    /\ \A i \in DOMAIN trace :
          ~trace[i].ok =>
              /\ i = Len(trace)
              /\ pc = "failed"
              /\ response = ServerError
    /\ Succeeded => \A i \in DOMAIN trace : trace[i].ok
    /\ "answer" \in DOMAIN response => Succeeded

C4_Witness ==
    /\ pc = "failed"
    /\ response = ServerError
    /\ trace[Len(trace)].op = "insert_chat_history"
    /\ ~trace[Len(trace)].ok
    /\ Len(chat_history) = Len(history_at_start) + 1

\* C5: the sources list of a response contains no value twice.
C5_SourcesDistinct ==
    Succeeded =>
        \A i, j \in DOMAIN response.sources :
            i # j => response.sources[i] # response.sources[j]

C5_Witness ==
    /\ Succeeded
    /\ EmbeddedThen(request.question, "match_documents")
    /\ LET data == last_calls[2].result
       IN  \E i, j \in DOMAIN data :
              /\ i # j
              /\ "source" \in DOMAIN data[i].metadata
              /\ "source" \in DOMAIN data[j].metadata
              /\ data[i].metadata.source = data[j].metadata.source

\* a chunk with no metadata source: no metadata, a null metadata, a metadata
\* without the key, or a null source
LacksSource(doc) ==
    IF "metadata" \notin DOMAIN doc THEN TRUE
    ELSE IF doc.metadata = None THEN TRUE
    ELSE IF "source" \notin DOMAIN doc.metadata THEN TRUE
    ELSE doc.metadata.source = None

\* C6: when the document match for the sources succeeds, the request succeeds,
\* and every returned chunk without a metadata source contributes "Unknown"
\* to the sources of the response.
C6_UnknownDefault ==
    (/\ pc \in {"done", "failed"}
     /\ Len(last_calls) = 2
     /\ last_calls[2].op = "match_documents"
     /\ last_calls[2].ok) =>
        /\ Succeeded
        /\ \A i \in DOMAIN last_calls[2].result :
              LacksSource(last_calls[2].result[i]) =>
                  "Unknown" \in Range(response.sources)

\* C7: the precision_at_k reported for an evaluation query equals
\* |retrieved and expected source basenames, as sets| / 3.
C7_PrecisionIsSetIntersection ==
    eval_last.query_id > 0 =>
        eval_last.precision_at_k.num * 3 =
            Cardinality(Range(eval_last.retrieved_sources)
                          \cap Range(eval_last.expected_sources))
                * eval_last.precision_at_k.den

\* C8: get_relevant_history(c, q) embeds q once, makes one history match call
\* with that embedding, conversation id c and match_count 4, and returns one
\* message per returned row, in the returned order, with the row's type
\* (human or ai) and content.
C8_RelevantHistory ==
    pc = "rephrase" =>
        /\ EmbeddedThen(request.question, "match_chat_history")
        /\ Len(trace) = 2
        /\ last_calls[2].query_embedding = EmbedQuery(request.question)
        /\ last_calls[2].p_conversation_id = session_id_str
        /\ last_calls[2].match_count = 4
        /\ LET rows == last_calls[2].result
           IN  /\ Len(recalled_history) = Len(rows)
               /\ \A i \in DOMAIN rows :
                     /\ rows[i].message_type \in {"human", "ai"}
                     /\ recalled_history[i].type = rows[i].message_type
                     /\ recalled_history[i].content = rows[i].content

C8_Witness ==
    /\ pc = "rephrase"
    /\ Len(recalled_history) = 2
    /\ recalled_history[1].type = "ai"
    /\ recalled_history[2].type = "human"

OrderOfPorts ==
    <<"match_chat_history", "llm", "match_documents", "llm",
      "insert_chat_history", "insert_chat_history", "match_documents">>

\* C9: the ports are called in the order history match (question),
\* reformulation LLM call, document match (reformulated question), answer LLM
\* call, insert of the human entry, insert of the ai entry, document match
\* (original question): a request never calls them in another order, each
\* step's call is the one named, and a successful request made each call
\* exactly once.
C9_CallOrder ==
    /\ IsPrefix(PortOps, OrderOfPorts)
    /\ Succeeded => PortOps = OrderOfPorts
    /\ pc = "rephrase" =>
          /\ EmbeddedThen(request.question, "match_chat_history")
          /\ Len(PortOps) = 1
    /\ pc = "retrieve_context" =>
          /\ CalledLlm
          /\ last_calls[1].messages[1].content = contextualize_q_system_prompt
          /\ last_calls[1].result = rephrased
          /\ Len(PortOps) = 2
    /\ pc = "generate" =>
          /\ EmbeddedThen(rephrased, "match_documents")
          /\ last_calls[2].query_embedding = EmbedQuery(rephrased)
          /\ Len(PortOps) = 3
    /\ pc = "add_human" =>
          /\ CalledLlm
          /\ last_calls[1].messages[1].content # contextualize_q_system_prompt
          /\ last_calls[1].result = answer
          /\ Len(PortOps) = 4
    /\ pc = "add_ai" =>
          /\ EmbeddedThen(request.question, "insert_chat_history")
          /\ last_calls[2].row.message_type = "human"
          /\ last_calls[2].row.content = request.question
          /\ Len(PortOps) = 5
    /\ pc = "retrieve_sources" =>
          /\ EmbeddedThen(answer, "insert_chat_history")
          /\ last_calls[2].row.message_type = "ai"
          /\ last_calls[2].row.content = answer
          /\ Len(PortOps) = 6
    /\ Succeeded =>
          /\ EmbeddedThen(request.question, "match_documents")
          /\ last_calls[2].query_embedding = EmbedQuery(request.question)

C9_Witness ==
    /\ Succeeded
    /\ history_at_start # <<>>
    /\ request.question \notin LlmReplies

\* C10: the messages sent to the LLM for the answer are the system message,
\* then exactly the recalled history in its order, then the original question
\* as the final human turn.
C10_AnswerPrompt ==
    pc = "add_human" =>
        /\ CalledLlm
        /\ LET m == last_calls[1].messages
           IN  /\ Len(m) = Len(recalled_history) + 2
               /\ m[1].type = "system"
               /\ SubSeq(m, 2, Len(m) - 1) = recalled_history
               /\ m[Len(m)] = [type |-> "human", content |-> request.question]

\* the question is one the LLM never returns, so the reformulated question
\* differed from it
C10_Witness ==
    /\ pc = "add_human"
    /\ request.question \notin LlmReplies
    /\ Len(recalled_history) = 2

\* the contents of the first n chunks that have one, each after the first
\* preceded by a blank line
RECURSIVE BlankLineJoined(_, _)
BlankLineJoined(chunks, n) ==
    IF n = 0 THEN ""
    ELSE IF n = 1 THEN chunks[1].content
    ELSE BlankLineJoined(chunks, n - 1) \o "\n\n" \o chunks[n].content

WithContent(doc) == "content" \in DOMAIN doc

ExpectedContext(data) ==
    LET kept == SelectSeq(data, WithContent)
    IN  BlankLineJoined(kept, Len(kept))

\* C11: once the document match on the reformulated question has returned,
\* the context block is the contents of the returned chunks that have one,
\* in the returned order, joined by blank lines (a chunk without content is
\* skipped and the request goes on), and the answer LLM call that follows
\* gets exactly that block in its system message.
C11_ContextBlock ==
    /\ [](pc = "generate" =>
            /\ EmbeddedThen(rephrased, "match_documents")
            /\ context = ExpectedContext(last_calls[2].result))
    /\ [][(pc = "generate" /\ pc' = "add_human") =>
            /\ Len(last_calls') = 1
            /\ last_calls'[1].op = "llm"
            /\ last_calls'[1].messages[1].content =
                  qa_system_prompt(ExpectedContext(last_calls[2].result))]_vars

C11_Witness ==
    /\ pc = "add_human"
    /\ CalledLlm
    /\ last_calls[1].messages[1].content =
          qa_system_prompt("Rows are inserted with insert()." \o "\n\n"
                             \o "Supabase is open source.")

\* the request failed at the recall, the reformulation, the context retrieval
\* or the answer LLM call
FailedBeforePersist ==
    /\ pc = "failed"
    /\ Len(PortOps) <= 4
    /\ \A i \in DOMAIN trace : trace[i].op # "insert_chat_history"

\* C12: a request that fails at a step up to and including answer generation
\* leaves the chat history as it was when the request was received; until the
\* answer is generated a running request has not written to it either.
C12_NoEntryOnEarlyFailure ==
    /\ FailedBeforePersist => chat_history = history_at_start
    /\ pc \in {"recall", "rephrase", "retrieve_context", "generate", "add_human"} =>
          chat_history = history_at_start
    /\ (pc = "failed" /\ Len(trace) <= 6) => FailedBeforePersist

C12_Witness ==
    /\ FailedBeforePersist
    /\ Len(PortOps) = 4
    /\ trace[Len(trace)].op = "llm"
    /\ ~trace[Len(trace)].ok
    /\ history_at_start # <<>>

====
